---- MODULE Spec2Model ----
(***************************************************************************)
(* Birbank Business connector (models/account_online_link.py): the token   *)
(* cache, the account reconciler, the transaction ingestion pipeline and   *)
(* the connection status of ONE connection (account.online.link record).   *)
(* Times are seconds (fields.Datetime has second resolution).              *)
(***************************************************************************)
EXTENDS Integers, Sequences, FiniteSets, Bags, TLC

\* ---------------------------------------------------------------- bounds
MaxTicks == 3          \* how often the clock advances in one behaviour
MaxLines == 2          \* persisted statement lines in one behaviour
MaxBatch == 2          \* transactions returned by one statement request
MaxAccounts == 3       \* online accounts under the connection
MaxJournals == 3       \* journals of the host

\* ------------------------------------------------------ program constants
MarginSec == 300       \* timedelta(minutes=5)
SessionSec == 3000     \* timedelta(minutes=50)

\* falsy field values (False / None / "")
NoToken == "no_token_cached"
NoExpiry == -1
NoDate == -1
NoError == "no_error"
NoId == "no_id"
NoIdent == "no_ident"

\* ------------------------------------------------- environment value sets
Tokens == {"jwt1", "jwt2"}
\* what POST /login can do: transport/HTTP failure, a body without
\* responseData.jwttoken, or a body carrying a token
LoginResponses == {"http_error", "no_token"} \cup Tokens
TxIds == {"r1", "r2"}
\* a long pause: one second less than a fresh token stays trusted
LongPause == SessionSec - MarginSec - 1
\* invocations of action_fetch_transactions; SeqProcs run one at a time
Procs == {1, 2}
SeqProcs == {1}

VARIABLES
    state,                 \* account.online.link.state
    last_success_date,     \* account.online.link.last_success_date
    last_error_message,    \* account.online.link.last_error_message
    birbank_jwt_token,     \* account.online.link.birbank_jwt_token
    birbank_token_expiry,  \* account.online.link.birbank_token_expiry
    now,                   \* fields.Datetime.now()
    ticks,                 \* number of clock advances so far
    accounts,              \* account_online_account_ids, by record id
    journals,              \* account.journal records, by record id
    lines,                 \* account.bank.statement.line records (a bag)
    sync,                  \* locals of each action_fetch_transactions call
    lastCall,              \* the last direct _get_birbank_token call
    lastIngest,            \* the last _custom_create_lines call that returned
    ret                    \* what the last operation returned to its caller

vars == <<state, last_success_date, last_error_message, birbank_jwt_token,
          birbank_token_expiry, now, ticks, accounts, journals, lines, sync,
          lastCall, lastIngest, ret>>

conn == <<state, last_success_date, last_error_message>>
cache == <<birbank_jwt_token, birbank_token_expiry>>
host == <<accounts, journals, lines>>

\* ---------------------------------------------------------------- helpers
Min(S) == CHOOSE x \in S : \A y \in S : x <= y

RECURSIVE SeqToBag(_)
SeqToBag(s) ==
    IF s = <<>> THEN EmptyBag ELSE SetToBag({Head(s)}) (+) SeqToBag(Tail(s))

SeqsUpTo(S, n) == UNION {[1..k -> S] : k \in 0..n}

\* what a GET can do: fail (transport, HTTP status, parsing) or return data
Outcomes(S) ==
    {[ok |-> FALSE, data |-> <<>>]} \cup {[ok |-> TRUE, data |-> d] : d \in S}

\* a transaction as _fetch_odoo_fin_transactions builds it; only the
\* identifier matters to the duplicate check
Tx(i) == [online_transaction_identifier |-> i]
Batches == SeqsUpTo({Tx(i) : i \in TxIds \cup {NoId}}, MaxBatch)
OneBatch == {<<Tx("r1")>>}

\* ------------------------------------------------------------ token cache
\* the reuse test with a ten-minute margin
TokenValid_WideMargin(token, expiry, t) ==
    /\ token # NoToken
    /\ expiry # NoExpiry
    /\ expiry > t + 2 * MarginSec

\* the reuse test with >= for >
TokenValid_Geq(token, expiry, t) ==
    /\ token # NoToken
    /\ expiry # NoExpiry
    /\ expiry >= t + MarginSec

\* the reuse test of _get_birbank_token
TokenValid(token, expiry, t) ==
    /\ token # NoToken
    /\ expiry # NoExpiry
    /\ expiry > t + MarginSec

\* _get_birbank_token with a session length taken from the answer
get_birbank_token_ExpiryByAnswer(token, expiry, t, force_refresh, resp) ==
    IF ~force_refresh /\ TokenValid(token, expiry, t)
    THEN [raised |-> FALSE, token |-> token, login |-> FALSE,
          jwt |-> token, expiry |-> expiry]
    ELSE IF resp \notin Tokens
    THEN [raised |-> TRUE, token |-> NoToken, login |-> TRUE,
          jwt |-> token, expiry |-> expiry]
    ELSE [raised |-> FALSE, token |-> resp, login |-> TRUE, jwt |-> resp,
          expiry |-> t + (IF resp = "jwt2" THEN 2 * SessionSec
                          ELSE SessionSec)]

\* _get_birbank_token dropping the cache when the login fails
get_birbank_token_ClearsOnFailure(token, expiry, t, force_refresh, resp) ==
    IF ~force_refresh /\ TokenValid(token, expiry, t)
    THEN [raised |-> FALSE, token |-> token, login |-> FALSE,
          jwt |-> token, expiry |-> expiry]
    ELSE IF resp \notin Tokens
    THEN [raised |-> TRUE, token |-> NoToken, login |-> TRUE,
          jwt |-> NoToken, expiry |-> NoExpiry]
    ELSE [raised |-> FALSE, token |-> resp, login |-> TRUE,
          jwt |-> resp, expiry |-> t + SessionSec]

\* _get_birbank_token on cache (token, expiry) at time t, when POST /login
\* would answer resp; jwt/expiry are the cache afterwards
get_birbank_token(token, expiry, t, force_refresh, resp) ==
    IF ~force_refresh /\ TokenValid(token, expiry, t)
    THEN [raised |-> FALSE, token |-> token, login |-> FALSE,
          jwt |-> token, expiry |-> expiry]
    ELSE IF resp \notin Tokens
    THEN [raised |-> TRUE, token |-> NoToken, login |-> TRUE,
          jwt |-> token, expiry |-> expiry]
    ELSE [raised |-> FALSE, token |-> resp, login |-> TRUE,
          jwt |-> resp, expiry |-> t + SessionSec]

\* no POST /login was sent
NoRequest == "no_request"

\* lastCall: a direct _get_birbank_token call made at time t on cache
\* (token, expiry) with result r; prev is lastCall before it, and since is
\* the time of that earlier call when it was an unforced direct call whose
\* login succeeded; answer is what POST /login answered. NoCall once another
\* operation has used the cache
NoCall ==
    [force |-> FALSE, at |-> NoDate, login |-> FALSE, ok |-> FALSE,
     since |-> NoDate, jwt_before |-> NoToken, expiry_before |-> NoExpiry,
     returned |-> NoToken, answer |-> NoRequest]

TokenCall(prev, token, expiry, t, force_refresh, resp, r) ==
    [force |-> force_refresh, at |-> t, login |-> r.login, ok |-> ~r.raised,
     since |-> IF ~prev.force /\ prev.login /\ prev.ok THEN prev.at
               ELSE NoDate,
     jwt_before |-> token, expiry_before |-> expiry, returned |-> r.token,
     answer |-> resp]

\* locals of one action_fetch_transactions call. start_success, start_error,
\* start_state, start_lines, failed, auth_failed, retrieved, fetch_failed, lines_before
\* and finished_at are not in the code: they remember what the call saw and
\* did, for the properties below
IdleSync ==
    [pc |-> "idle", target |-> 0, queue |-> <<>>, transactions |-> <<>>,
     journal |-> 0, existing_ids |-> {}, new_lines |-> <<>>,
     total_new_lines |-> 0, result |-> "none",
     start_success |-> NoDate, start_error |-> NoError, failed |-> {},
     auth_failed |-> FALSE, lines_before |-> EmptyBag, finished_at |-> NoDate,
     start_lines |-> EmptyBag, retrieved |-> {}, fetch_failed |-> {},
     start_state |-> "draft"]

\* ret: the operation called last and whether it raised; upserted is the
\* set of accounts a returned action_initialize_connection wrote or created,
\* account the account action_create_journal was called on
Returned(op, raised) ==
    [op |-> op, raised |-> raised, upserted |-> {}, account |-> 0]

\* lastIngest: journal and batch of the last _custom_create_lines call that
\* returned, NoIngest when the last call raised or none was made
NoIngest == [journal |-> 0, batch |-> <<>>]

AllIdle == \A p \in Procs : sync[p].pc = "idle"

\* journals of the host before the connector runs
InitJournals ==
    << [type |-> "bank", acc_number |-> "AZ1", account_online_account_id |-> 0],
       [type |-> "bank", acc_number |-> "AZ3", account_online_account_id |-> 0] >>

\* token caches a connection record can be created with (both fields are
\* plain writable fields)
InitCaches ==
    { <<NoToken, NoExpiry>>, <<"jwt1", NoExpiry>>, <<NoToken, SessionSec>> }

\* a connection record created with token cache c, before any operation
InitWith(c) ==
    /\ state = "draft"
    /\ last_success_date = NoDate
    /\ last_error_message = NoError
    /\ birbank_jwt_token = c[1]
    /\ birbank_token_expiry = c[2]
    /\ now = 0
    /\ ticks = 0
    /\ accounts = <<>>
    /\ journals = InitJournals
    /\ lines = EmptyBag
    /\ sync = [p \in Procs |-> IdleSync]
    /\ lastCall = NoCall
    /\ lastIngest = NoIngest
    /\ ret = Returned("none", FALSE)

\* a new connection: no token cached
Init == InitWith(<<NoToken, NoExpiry>>)

InitToken == \E c \in InitCaches : InitWith(c)

\* ------------------------------------------------------------- operations
\* one second passes
Tick ==
    /\ ticks < MaxTicks
    /\ now' = now + 1
    /\ ticks' = ticks + 1
    /\ UNCHANGED <<conn, cache, host, sync, lastCall, lastIngest, ret>>

\* a long pause passes
Wait ==
    /\ ticks < MaxTicks
    /\ now' = now + LongPause
    /\ ticks' = ticks + 1
    /\ UNCHANGED <<conn, cache, host, sync, lastCall, lastIngest, ret>>

\* the answers of POST /login, among logins, that a call on cache
\* (token, expiry) can get: none is requested when the cache is reused
Answers(token, expiry, t, force_refresh, logins) ==
    IF ~force_refresh /\ TokenValid(token, expiry, t) THEN {NoRequest}
    ELSE logins

\* _get_birbank_token called on its own
GetToken(env) ==
    /\ AllIdle
    /\ \E force_refresh \in BOOLEAN :
       \E resp \in Answers(birbank_jwt_token, birbank_token_expiry, now,
                           force_refresh, env.logins) :
          LET r == get_birbank_token(birbank_jwt_token, birbank_token_expiry,
                                     now, force_refresh, resp)
          IN /\ birbank_jwt_token' = r.jwt
             /\ birbank_token_expiry' = r.expiry
             /\ lastCall' = TokenCall(lastCall, birbank_jwt_token,
                                       birbank_token_expiry, now,
                                       force_refresh, resp, r)
             /\ ret' = Returned("get_token", r.raised)
    /\ UNCHANGED <<conn, now, ticks, host, sync, lastIngest>>

\* action_reset_connection forgetting the last error as well
Reset_ClearsError ==
    /\ AllIdle
    /\ state' = "disconnected"
    /\ last_error_message' = NoError
    /\ ret' = Returned("reset", FALSE)
    /\ UNCHANGED <<last_success_date, cache, now, ticks, host, sync, lastCall,
                   lastIngest>>

\* action_reset_connection
Reset ==
    /\ AllIdle
    /\ state' = "disconnected"
    /\ ret' = Returned("reset", FALSE)
    /\ UNCHANGED <<last_success_date, last_error_message, cache, now, ticks,
                   host, sync, lastCall, lastIngest>>

\* ------------------------------------------------------ account reconciler
ErrAuth == "Auth Error"
ErrFetch == "Fetch Error"
ErrDb == "db error"
ErrWrite == "Database Write Error"

\* what GET /accounts can return, as the list _fetch_odoo_fin_accounts builds
AccountData(i) == [online_identifier |-> i]
AccountsResponses ==
    { <<AccountData("AZ1")>>,
      <<AccountData("AZ1"), AccountData("AZ1")>>,
      <<AccountData(NoIdent), AccountData("AZ1")>>,
      <<AccountData("AZ1"), AccountData("AZ2"), AccountData("AZ3")>> }

\* _compute_linked_journal for account id: the journal pointing at the
\* account, else the bank journal with the account's number, else 0;
\* limit=1 is taken to return the lowest id
linked_journal_id(id, accs, jrnls) ==
    LET direct == {j \in 1..Len(jrnls) :
                      jrnls[j].account_online_account_id = id}
        byNumber == {j \in 1..Len(jrnls) :
                      /\ jrnls[j].type = "bank"
                      /\ jrnls[j].acc_number = accs[id].account_number}
    IN IF direct # {} THEN Min(direct)
       ELSE IF accs[id].account_number # NoIdent /\ byNumber # {}
            THEN Min(byNumber)
            ELSE 0

\* the existing_accounts dict of action_initialize_connection: a later
\* account with the same identifier replaces an earlier one
ExistingAccounts(accs) ==
    LET present == {accs[i].online_identifier : i \in 1..Len(accs)}
                       \ {NoIdent}
    IN [ident \in present |->
           CHOOSE i \in 1..Len(accs) :
              /\ accs[i].online_identifier = ident
              /\ \A k \in 1..Len(accs) :
                    accs[k].online_identifier = ident => k <= i]

\* the "Auto-link logic" block for the upserted account id
AutoLink(id, identifier, accs, jrnls) ==
    IF linked_journal_id(id, accs, jrnls) # 0 THEN jrnls
    ELSE LET found == {j \in 1..Len(jrnls) :
                          /\ jrnls[j].type = "bank"
                          /\ jrnls[j].acc_number = identifier}
         IN IF found = {} THEN jrnls
            ELSE [jrnls EXCEPT ![Min(found)].account_online_account_id = id]

\* the accounts the upsert loop writes or creates when no write is refused,
\* run on the accounts accs: the existing account of each listed identifier,
\* and one new account per listed item whose identifier has none
UpsertedIds(accounts_list, accs) ==
    LET existing_accounts == ExistingAccounts(accs)
        items == {i \in 1..Len(accounts_list) :
                     accounts_list[i].online_identifier # NoIdent}
        old == {i \in items : accounts_list[i].online_identifier
                                  \in DOMAIN existing_accounts}
    IN {existing_accounts[accounts_list[i].online_identifier] : i \in old}
       \cup (Len(accs) + 1 .. Len(accs) + Cardinality(items \ old))

RECURSIVE UpsertFrom(_, _, _, _, _, _)
\* the upsert loop of action_initialize_connection from index idx on; the
\* database refuses the write of item number stop (0: it refuses none)
UpsertFrom(accounts_list, idx, stop, existing_accounts, accs, jrnls) ==
    IF idx > Len(accounts_list)
    THEN [raised |-> FALSE, accounts |-> accs, journals |-> jrnls]
    ELSE LET identifier == accounts_list[idx].online_identifier
         IN IF identifier = NoIdent
            THEN UpsertFrom(accounts_list, idx + 1, stop, existing_accounts,
                            accs, jrnls)
            ELSE IF idx = stop
            THEN [raised |-> TRUE, accounts |-> accs, journals |-> jrnls]
            ELSE LET vals == [online_identifier |-> identifier,
                              account_number |-> identifier]
                     old == identifier \in DOMAIN existing_accounts
                     accs2 == IF old
                              THEN [accs EXCEPT
                                      ![existing_accounts[identifier]] = vals]
                              ELSE Append(accs, vals)
                     id == IF old THEN existing_accounts[identifier]
                           ELSE Len(accs2)
                 IN UpsertFrom(accounts_list, idx + 1, stop,
                               existing_accounts, accs2,
                               AutoLink(id, identifier, accs2, jrnls))

\* action_initialize_connection; a raise leaves what was written before it
\* (fetched.data = <<>> where GET /accounts is never sent)
InitializeConnection(env) ==
    /\ AllIdle
    /\ \E resp \in env.logins, fetched \in env.accounts :
       \E stop \in 0..(IF env.db_errors THEN Len(fetched.data) ELSE 0) :
          LET r1 == get_birbank_token(birbank_jwt_token, birbank_token_expiry,
                                      now, TRUE, resp)
              up == UpsertFrom(fetched.data, 1, stop,
                               ExistingAccounts(accounts), accounts, journals)
          IN IF r1.raised
             THEN /\ fetched.data = <<>>
                  /\ last_error_message' = ErrAuth
                  /\ ret' = Returned("init", TRUE)
                  /\ UNCHANGED <<state, last_success_date, cache, accounts,
                                 journals>>
             ELSE \E resp2 \in Answers(r1.jwt, r1.expiry, now, FALSE,
                                         env.logins) :
                  LET r2 == get_birbank_token(r1.jwt, r1.expiry, now, FALSE,
                                              resp2)
                  IN
                  /\ birbank_jwt_token' = r2.jwt
                  /\ birbank_token_expiry' = r2.expiry
                  /\ IF r2.raised
                     THEN /\ fetched.data = <<>>
                          /\ last_error_message' = ErrAuth
                          /\ ret' = Returned("init", TRUE)
                          /\ UNCHANGED <<state, last_success_date, accounts,
                                         journals>>
                     ELSE IF ~fetched.ok
                     THEN /\ last_error_message' = ErrFetch
                          /\ ret' = Returned("init", TRUE)
                          /\ UNCHANGED <<state, last_success_date, accounts,
                                         journals>>
                     ELSE /\ Len(up.accounts) <= MaxAccounts
                          /\ accounts' = up.accounts
                          /\ journals' = up.journals
                          /\ IF up.raised
                             THEN /\ last_error_message' = ErrDb
                                  /\ ret' = Returned("init", TRUE)
                                  /\ UNCHANGED <<state, last_success_date>>
                             ELSE /\ state' = "connected"
                                  /\ last_success_date' = now
                                  /\ last_error_message' = NoError
                                  /\ ret' =
                                       [Returned("init", FALSE) EXCEPT
                                          !.upserted =
                                            UpsertedIds(fetched.data, accounts)]
    /\ lastCall' = NoCall
    /\ UNCHANGED <<now, ticks, lines, sync, lastIngest>>

\* journal_vals of action_create_journal for account id: a bank journal
\* pointing at the account, with the account's number as bank account
NewJournal(id, accs) ==
    [type |-> "bank", acc_number |-> accs[id].account_number,
     account_online_account_id |-> id]

\* action_create_journal without its "if self.linked_journal_id: return"
CreateJournal_Unguarded ==
    /\ AllIdle
    /\ \E id \in 1..Len(accounts) :
          /\ Len(journals) < MaxJournals
          /\ journals' = Append(journals, NewJournal(id, accounts))
          /\ ret' = [Returned("create_journal", FALSE) EXCEPT !.account = id]
    /\ UNCHANGED <<conn, cache, now, ticks, accounts, lines, sync, lastCall,
                   lastIngest>>

\* action_create_journal on an account of the connection; the host creates
\* the journal or refuses it
CreateJournal ==
    /\ AllIdle
    /\ \E id \in 1..Len(accounts) :
          IF linked_journal_id(id, accounts, journals) # 0
          THEN /\ ret' = [Returned("create_journal", FALSE) EXCEPT
                             !.account = id]
               /\ UNCHANGED journals
          ELSE \E created \in BOOLEAN :
                  IF created
                  THEN /\ Len(journals) < MaxJournals
                       /\ journals' = Append(journals,
                                             NewJournal(id, accounts))
                       /\ ret' = [Returned("create_journal", FALSE) EXCEPT
                                     !.account = id]
                  ELSE /\ ret' = [Returned("create_journal", TRUE) EXCEPT
                                     !.account = id]
                       /\ UNCHANGED journals
    /\ UNCHANGED <<conn, cache, now, ticks, accounts, lines, sync, lastCall,
                   lastIngest>>

\* ------------------------------------------------- transaction ingestion
\* the duplicate search run against the lines of another journal
ExistingIds_WrongJournal(journal, transactions, lns) ==
    LET incoming_ids == {transactions[i].online_transaction_identifier :
                            i \in 1..Len(transactions)} \ {NoId}
    IN {ref_id \in incoming_ids :
           CopiesIn([journal_id |-> journal + 1,
                     online_transaction_identifier |-> ref_id], lns) > 0}

\* _custom_create_lines, "2. Duplicate Check": the incoming identifiers that
\* a line of the journal already carries
ExistingIds(journal, transactions, lns) ==
    LET incoming_ids == {transactions[i].online_transaction_identifier :
                            i \in 1..Len(transactions)} \ {NoId}
    IN {ref_id \in incoming_ids :
           CopiesIn([journal_id |-> journal,
                     online_transaction_identifier |-> ref_id], lns) > 0}

\* _custom_create_lines, "Skip if duplicate"
IsDuplicate(ref_id, existing_ids) == ref_id # NoId /\ ref_id \in existing_ids

RECURSIVE ToCreate_Seen(_, _, _)
\* the to_create list when a transaction is also skipped because an earlier
\* one of the batch had the same identifier, a missing identifier included
ToCreate_Seen(transactions, existing_ids, journal) ==
    IF transactions = <<>> THEN <<>>
    ELSE LET n == Len(transactions)
             ref_id == transactions[n].online_transaction_identifier
             front == SubSeq(transactions, 1, n - 1)
             seen == {front[i].online_transaction_identifier : i \in 1..(n - 1)}
             rest == ToCreate_Seen(front, existing_ids, journal)
         IN IF IsDuplicate(ref_id, existing_ids) \/ ref_id \in seen THEN rest
            ELSE rest \o <<[journal_id |-> journal,
                            online_transaction_identifier |-> ref_id]>>

RECURSIVE ToCreate(_, _, _)
\* _custom_create_lines, the to_create list
ToCreate(transactions, existing_ids, journal) ==
    IF transactions = <<>> THEN <<>>
    ELSE LET ref_id == Head(transactions).online_transaction_identifier
             rest == ToCreate(Tail(transactions), existing_ids, journal)
         IN IF IsDuplicate(ref_id, existing_ids) THEN rest
            ELSE <<[journal_id |-> journal,
                    online_transaction_identifier |-> ref_id]>> \o rest

\* the "Update success status" condition without its single-account case
MarksSuccess_NoTarget(target_account_id, n_accounts) ==
    target_account_id = 0

\* action_fetch_transactions, "Update success status" condition
MarksSuccess(target_account_id, n_accounts) ==
    target_account_id = 0 \/ n_accounts = 1

\* action_fetch_transactions without its first write of the status
SyncBegin_KeepsStatus(p) ==
    /\ sync[p].pc = "idle"
    /\ \E target_account_id \in 0..Len(accounts) :
          sync' = [sync EXCEPT ![p] =
                     [IdleSync EXCEPT
                        !.pc = "loop",
                        !.target = target_account_id,
                        !.queue = IF target_account_id # 0
                                  THEN <<target_account_id>>
                                  ELSE [i \in 1..Len(accounts) |-> i],
                        !.start_state = state,
                        !.start_success = last_success_date,
                        !.start_error = last_error_message,
                        !.start_lines = lines]]
    /\ ret' = Returned("sync", FALSE)
    /\ UNCHANGED <<conn, cache, now, ticks, host, lastCall, lastIngest>>

\* action_fetch_transactions up to the account loop. The writes to the
\* connection record themselves are taken to succeed, so the outer handler
\* is entered only by the UserError of the inner one
SyncBegin(p) ==
    /\ sync[p].pc = "idle"
    /\ \E target_account_id \in 0..Len(accounts) :
          sync' = [sync EXCEPT ![p] =
                     [IdleSync EXCEPT
                        !.pc = "loop",
                        !.target = target_account_id,
                        !.queue = IF target_account_id # 0
                                  THEN <<target_account_id>>
                                  ELSE [i \in 1..Len(accounts) |-> i],
                        !.start_state = state,
                        !.start_success = last_success_date,
                        !.start_error = last_error_message,
                        !.start_lines = lines]]
    /\ state' = "connected"
    /\ ret' = Returned("sync", FALSE)
    /\ UNCHANGED <<last_success_date, last_error_message, cache, now, ticks,
                   host, lastCall, lastIngest>>

\* the same, called while no other call of the connection is running
SyncStart(p) ==
    /\ AllIdle
    /\ SyncBegin(p)

\* "if not transactions: continue" with the loop ended instead
AfterRetrieve_Break(s, transactions, login_failed, request_failed) ==
    LET account == Head(s.queue)
        seen == [s EXCEPT !.auth_failed = @ \/ login_failed,
                          !.retrieved = @ \cup {account},
                          !.fetch_failed = IF login_failed \/ request_failed
                                           THEN @ \cup {account} ELSE @]
    IN IF transactions = <<>>
       THEN [seen EXCEPT !.queue = <<>>]
       ELSE [seen EXCEPT !.pc = "persist", !.transactions = transactions]

\* the locals after _retrieve_transactions has returned transactions for
\* the head of the queue: "if not transactions: continue"
AfterRetrieve(s, transactions, login_failed, request_failed) ==
    LET account == Head(s.queue)
        seen == [s EXCEPT !.auth_failed = @ \/ login_failed,
                          !.retrieved = @ \cup {account},
                          !.fetch_failed = IF login_failed \/ request_failed
                                           THEN @ \cup {account} ELSE @]
    IN IF transactions = <<>>
       THEN [seen EXCEPT !.queue = Tail(@)]
       ELSE [seen EXCEPT !.pc = "persist", !.transactions = transactions]

\* one pass of the loop up to "if not transactions": _retrieve_transactions
\* and _fetch_odoo_fin_transactions for the next account; every failure in
\* them, a failed login included, ends in "return []". An account always
\* has its identifier, so the number is never parsed from the name
\* (fetched.data = <<>> where the statement request is never sent)
SyncRetrieve(p, env) ==
    /\ sync[p].pc = "loop"
    /\ sync[p].queue # <<>>
    /\ \E resp \in Answers(birbank_jwt_token, birbank_token_expiry, now,
                           FALSE, env.logins),
          fetched \in env.statements :
          LET online_account == accounts[Head(sync[p].queue)]
              r == get_birbank_token(birbank_jwt_token, birbank_token_expiry,
                                     now, FALSE, resp)
              acc_num == IF online_account.online_identifier # NoIdent
                         THEN online_account.online_identifier
                         ELSE online_account.account_number
              sent == ~r.raised /\ acc_num # NoIdent
              transactions == IF sent /\ fetched.ok THEN fetched.data ELSE <<>>
          IN /\ ~sent => fetched.data = <<>>
             /\ birbank_jwt_token' = r.jwt
             /\ birbank_token_expiry' = r.expiry
             /\ sync' = [sync EXCEPT ![p] =
                  AfterRetrieve(@, transactions, r.raised,
                                sent /\ ~fetched.ok)]
    /\ lastCall' = NoCall
    /\ UNCHANGED <<conn, now, ticks, host, lastIngest, ret>>

\* the inner handler raising whether or not the sync has a target
AfterInnerError_AlwaysRaise(s) ==
    [s EXCEPT !.pc = "done", !.result = "raised", !.finished_at = now,
              !.failed = @ \cup {Head(s.queue)}]

\* the "except Exception as inner_e" handler, and the outer handler when it
\* raises: the locals afterwards
AfterInnerError(s) ==
    IF s.target # 0
    THEN [s EXCEPT !.pc = "done", !.result = "raised", !.finished_at = now,
                   !.failed = @ \cup {Head(s.queue)}]
    ELSE [s EXCEPT !.pc = "loop", !.queue = Tail(@), !.transactions = <<>>,
                   !.journal = 0, !.existing_ids = {},
                   !.failed = @ \cup {Head(s.queue)}]

\* the outer handler recording the message without the status
InnerErrorWrites_MessageOnly(s) ==
    IF s.target # 0
    THEN /\ last_error_message' = ErrWrite
         /\ UNCHANGED <<state, last_success_date>>
    ELSE UNCHANGED conn

\* the same handlers: the connection afterwards
InnerErrorWrites(s) ==
    IF s.target # 0
    THEN /\ last_error_message' = ErrWrite
         /\ state' = "error"
         /\ UNCHANGED last_success_date
    ELSE UNCHANGED conn

\* _custom_create_lines, "1. Resolve Journal" and "2. Duplicate Check".
\* journal_id, where the field exists, is only ever written with the linked
\* journal, and the search by account_online_account_id is the first search
\* of _compute_linked_journal: neither finds a journal linked_journal_id
\* does not
SyncResolve(p) ==
    /\ sync[p].pc = "persist"
    /\ LET journal == linked_journal_id(Head(sync[p].queue), accounts, journals)
       IN IF journal = 0
          THEN /\ sync' = [sync EXCEPT ![p] = AfterInnerError(@)]
               /\ InnerErrorWrites(sync[p])
               /\ lastIngest' = NoIngest
          ELSE /\ sync' = [sync EXCEPT ![p] =
                    [@ EXCEPT !.pc = "create", !.journal = journal,
                              !.existing_ids =
                                  ExistingIds(journal, sync[p].transactions, lines)]]
               /\ UNCHANGED <<conn, lastIngest>>
    /\ UNCHANGED <<cache, now, ticks, host, lastCall, ret>>

\* the create leaving out what the journal has come to hold since the search
SyncCreate_Recheck(p) ==
    /\ sync[p].pc = "create"
    /\ LET to_create == ToCreate(sync[p].transactions,
                                 ExistingIds(sync[p].journal,
                                             sync[p].transactions, lines),
                                 sync[p].journal)
       IN /\ BagCardinality(lines) + Len(to_create) <= MaxLines
          /\ lines' = lines (+) SeqToBag(to_create)
          /\ sync' = [sync EXCEPT ![p] =
               [@ EXCEPT !.pc = "count", !.new_lines = to_create,
                         !.lines_before = lines]]
          /\ UNCHANGED <<conn, lastIngest>>
    /\ UNCHANGED <<cache, now, ticks, accounts, journals, lastCall, ret>>

\* _custom_create_lines, the to_create loop and "3. Create Records";
\* StatementLine.create writes every line or raises
SyncCreate(p) ==
    /\ sync[p].pc = "create"
    /\ LET to_create == ToCreate(sync[p].transactions, sync[p].existing_ids,
                                 sync[p].journal)
       IN \E created \in (IF to_create = <<>> THEN {TRUE} ELSE BOOLEAN) :
             IF created
             THEN /\ BagCardinality(lines) + Len(to_create) <= MaxLines
                  /\ lines' = lines (+) SeqToBag(to_create)
                  /\ sync' = [sync EXCEPT ![p] =
                       [@ EXCEPT !.pc = "count", !.new_lines = to_create,
                                 !.lines_before = lines]]
                  /\ UNCHANGED <<conn, lastIngest>>
             ELSE /\ sync' = [sync EXCEPT ![p] = AfterInnerError(@)]
                  /\ InnerErrorWrites(sync[p])
                  /\ lastIngest' = NoIngest
                  /\ UNCHANGED lines
    /\ UNCHANGED <<cache, now, ticks, accounts, journals, lastCall, ret>>

\* the count taken from the incoming transactions
SyncCount_Incoming(p) ==
    /\ sync[p].pc = "count"
    /\ sync' = [sync EXCEPT ![p] =
          [@ EXCEPT !.pc = "loop", !.queue = Tail(@),
                    !.total_new_lines = @ + Len(sync[p].transactions),
                    !.transactions = <<>>, !.journal = 0,
                    !.existing_ids = {}, !.new_lines = <<>>,
                    !.lines_before = EmptyBag]]
    /\ lastIngest' = [journal |-> sync[p].journal,
                      batch |-> sync[p].transactions]
    /\ UNCHANGED <<conn, cache, now, ticks, host, lastCall, ret>>

\* count = len(new_lines); total_new_lines += count; next account
SyncCount(p) ==
    /\ sync[p].pc = "count"
    /\ sync' = [sync EXCEPT ![p] =
          [@ EXCEPT !.pc = "loop", !.queue = Tail(@),
                    !.total_new_lines = @ + Len(sync[p].new_lines),
                    !.transactions = <<>>, !.journal = 0,
                    !.existing_ids = {}, !.new_lines = <<>>,
                    !.lines_before = EmptyBag]]
    /\ lastIngest' = [journal |-> sync[p].journal,
                      batch |-> sync[p].transactions]
    /\ UNCHANGED <<conn, cache, now, ticks, host, lastCall, ret>>

\* after the loop: "Update success status" and the success notification
SyncFinish(p) ==
    /\ sync[p].pc = "loop"
    /\ sync[p].queue = <<>>
    /\ IF MarksSuccess(sync[p].target, Len(accounts))
       THEN /\ last_success_date' = now
            /\ last_error_message' = NoError
            /\ state' = "connected"
       ELSE UNCHANGED conn
    /\ sync' = [sync EXCEPT ![p] =
          [@ EXCEPT !.pc = "done", !.result = "success", !.finished_at = now]]
    /\ UNCHANGED <<cache, now, ticks, host, lastCall, lastIngest, ret>>

\* the caller gets the notification or the UserError
SyncReturn(p) ==
    /\ sync[p].pc = "done"
    /\ ret' = Returned("sync", sync[p].result = "raised")
    /\ sync' = [sync EXCEPT ![p] = IdleSync]
    /\ UNCHANGED <<conn, cache, now, ticks, host, lastCall, lastIngest>>

\* one step of an action_fetch_transactions call
Sync(p, env) ==
    \/ SyncStart(p)
    \/ SyncRetrieve(p, env)
    \/ SyncResolve(p)
    \/ SyncCreate(p)
    \/ SyncCount(p)
    \/ SyncFinish(p)
    \/ SyncReturn(p)

\* ------------------------------------------------------- specifications
\* What the bank and the database may do in a behaviour: the answers of
\* POST /login, of GET /accounts and of GET /v2/statement/account, and
\* whether a write of action_initialize_connection may be refused.
\* StatementLine.create may be refused in every behaviour.

\* the connection over time: logins and requests fail, statements are short
Bank ==
    [logins |-> {"http_error", "no_token", "jwt1"},
     accounts |-> Outcomes(AccountsResponses),
     statements |-> Outcomes(OneBatch),
     db_errors |-> TRUE]

\* ingestion: the bank answers every request, with every batch
Statements ==
    [logins |-> {"jwt1"},
     accounts |-> {[ok |-> TRUE, data |-> d] : d \in AccountsResponses},
     statements |-> {[ok |-> TRUE, data |-> d] : d \in Batches},
     db_errors |-> FALSE]

\* the token cache: every answer of POST /login
Logins ==
    [logins |-> LoginResponses,
     accounts |-> {},
     statements |-> {},
     db_errors |-> FALSE]

Next ==
    \/ Wait
    \/ Reset
    \/ InitializeConnection(Bank)
    \/ \E p \in SeqProcs : Sync(p, Bank)

Spec == Init /\ [][Next]_vars

\* the clock stands still
NextIngest ==
    \/ InitializeConnection(Statements)
    \/ \E p \in SeqProcs : Sync(p, Statements)

SpecIngest == Init /\ [][NextIngest]_vars

\* the clock to the second
\* journals: the bank answers every request, statements are short
Quiet ==
    [logins |-> {"jwt1"},
     accounts |-> {[ok |-> TRUE, data |-> d] : d \in AccountsResponses},
     statements |-> {[ok |-> TRUE, data |-> d] : d \in OneBatch},
     db_errors |-> FALSE]

NextJournal ==
    \/ CreateJournal
    \/ InitializeConnection(Quiet)
    \/ \E p \in SeqProcs : Sync(p, Quiet)

SpecJournal == Init /\ [][NextJournal]_vars

\* two calls at once: one account, the bank answers every request
Race ==
    [logins |-> {"jwt1"},
     accounts |-> {[ok |-> TRUE, data |-> <<AccountData("AZ1")>>]},
     statements |-> {[ok |-> TRUE, data |-> d] : d \in OneBatch},
     db_errors |-> FALSE]

\* one step of an action_fetch_transactions call that may run while another
\* call of the connection is running: the code takes no lock
ConcurrentSync(p, env) ==
    \/ SyncBegin(p)
    \/ SyncRetrieve(p, env)
    \/ SyncResolve(p)
    \/ SyncCreate(p)
    \/ SyncCount(p)
    \/ SyncFinish(p)
    \/ SyncReturn(p)

NextRace ==
    \/ InitializeConnection(Race)
    \/ \E p \in Procs : ConcurrentSync(p, Race)

SpecRace == Init /\ [][NextRace]_vars

NextToken == Tick \/ Wait \/ GetToken(Logins)

SpecToken == InitToken /\ [][NextToken]_vars

\* ------------------------------------------------------------- properties
AllHaveId(transactions) ==
    \A i \in 1..Len(transactions) :
        transactions[i].online_transaction_identifier # NoId

CountNoId(recs) ==
    Cardinality({i \in 1..Len(recs) :
                    recs[i].online_transaction_identifier = NoId})

NoIdLine(journal) ==
    [journal_id |-> journal, online_transaction_identifier |-> NoId]

\* the ingestion in progress at p repeats the last one: same journal, same
\* batch, nothing persisted in between
Repeats(p) ==
    /\ lastIngest.journal = sync[p].journal
    /\ lastIngest.batch = sync[p].transactions

\* C1: no two persisted statement lines of one journal carry the same
\* non-empty external transaction identifier (syncs run one at a time)
C1_UniqueIdentifier ==
    \A l \in BagToSet(lines) :
        l.online_transaction_identifier # NoId => CopiesIn(l, lines) <= 1

\* C2: ingesting a batch in which every transaction has an identifier a
\* second time right after the first creates no statement line and leaves
\* the persisted lines as they were
C2_Idempotent ==
    \A p \in Procs :
        (/\ sync[p].pc = "count"
         /\ Repeats(p)
         /\ AllHaveId(sync[p].transactions))
        => /\ sync[p].new_lines = <<>>
           /\ lines = sync[p].lines_before

C2_Witness ==
    \E p \in Procs :
        /\ sync[p].pc = "count"
        /\ Repeats(p)
        /\ AllHaveId(sync[p].transactions)
        /\ Len(sync[p].transactions) = 2
        /\ sync[p].transactions[1] # sync[p].transactions[2]

\* C3: every ingestion that returns creates one statement line for each
\* transaction of its batch that has no identifier, however many such
\* lines the journal already holds
C3_NoIdAlwaysCreated ==
    \A p \in Procs :
        sync[p].pc = "count"
        => /\ CountNoId(sync[p].new_lines) = CountNoId(sync[p].transactions)
           /\ CopiesIn(NoIdLine(sync[p].journal), lines)
                = CopiesIn(NoIdLine(sync[p].journal), sync[p].lines_before)
                  + CountNoId(sync[p].transactions)

C3_Witness ==
    \E p \in Procs :
        /\ sync[p].pc = "count"
        /\ Repeats(p)
        /\ CountNoId(sync[p].transactions) >= 1
        /\ CopiesIn(NoIdLine(sync[p].journal), sync[p].lines_before) >= 1
        /\ CountNoId(sync[p].new_lines) >= 1

\* C4: a sync of 3 accounts with no target in which account 2's persistence
\* failed ends with the last-success timestamp it started with
C4_TimestampKept ==
    \A p \in Procs :
        (/\ sync[p].pc = "done"
         /\ sync[p].target = 0
         /\ Len(accounts) = 3
         /\ sync[p].failed = {2})
        => last_success_date = sync[p].start_success

\* C5: a sync that ends without raising has set the last-success timestamp
\* and cleared the error message when it had no target or the connection
\* has exactly one account, and has left both as they were otherwise
C5_SuccessMark ==
    \A p \in Procs :
        (sync[p].pc = "done" /\ sync[p].result = "success")
        => IF sync[p].target = 0 \/ Len(accounts) = 1
           THEN /\ last_success_date = sync[p].finished_at
                /\ last_error_message = NoError
           ELSE /\ last_success_date = sync[p].start_success
                /\ last_error_message = sync[p].start_error

C5_Witness ==
    \E p \in Procs :
        /\ sync[p].pc = "done"
        /\ sync[p].result = "success"
        /\ sync[p].target # 0
        /\ Len(accounts) >= 2
        /\ sync[p].start_error # NoError
        /\ sync[p].finished_at # sync[p].start_success

\* C6: a sync with no target over several accounts in which an account's
\* persistence failed ends with status error and a last-error message
C6_ErrorRecorded ==
    \A p \in Procs :
        (/\ sync[p].pc = "done"
         /\ sync[p].target = 0
         /\ Len(accounts) > 1
         /\ sync[p].failed # {})
        => /\ state = "error"
           /\ last_error_message # NoError

\* C7: after initialize_connection has failed the status is error
C7_InitFailureSetsError ==
    (ret.op = "init" /\ ret.raised) => state = "error"

\* C8: a sync during which a login failed ends by raising
C8_AuthFailureBlocks ==
    \A p \in Procs :
        (sync[p].pc = "done" /\ sync[p].auth_failed)
        => sync[p].result = "raised"

\* C9 as claimed: an unforced get_token call made less than 50 minutes
\* after the successful login of the unforced call before it does not log in
C9_ReuseWithinSession ==
    (/\ lastCall.since # NoDate
     /\ ~lastCall.force
     /\ lastCall.at - lastCall.since < SessionSec)
    => ~lastCall.login

\* C9 as amended: an unforced get_token call made less than 45 minutes
\* (the session less the margin) after the successful login of the unforced
\* call before it does not log in, so the two calls issue one login request
C9_ReuseWithinTrust ==
    (/\ lastCall.since # NoDate
     /\ ~lastCall.force
     /\ lastCall.at - lastCall.since < SessionSec - MarginSec)
    => ~lastCall.login

C9_Witness ==
    /\ lastCall.since # NoDate
    /\ ~lastCall.force
    /\ lastCall.at - lastCall.since = SessionSec - MarginSec - 1
    /\ ~lastCall.login

\* C10: an unforced get_token call returns the cached token without a login
\* request exactly when the cached token is non-empty and its expiry is set
\* and more than 5 minutes after the time of the call
C10_ReuseIffTrusted ==
    (lastCall.at # NoDate /\ ~lastCall.force)
    => ((~lastCall.login /\ lastCall.returned = lastCall.jwt_before)
        <=> (/\ lastCall.jwt_before # NoToken
             /\ lastCall.expiry_before # NoExpiry
             /\ lastCall.expiry_before - lastCall.at > MarginSec))

C10_Witness ==
    /\ lastCall.at # NoDate
    /\ ~lastCall.force
    /\ ~lastCall.login
    /\ lastCall.expiry_before = lastCall.at + MarginSec + 1
    /\ lastCall.returned = lastCall.jwt_before

\* C11: after a get_token call whose login was answered with a token, the
\* connection stores that token with expiry = time of the call + 50 minutes,
\* whatever the answer was, and the call has returned the stored token
C11_LoginStoresToken ==
    (lastCall.login /\ lastCall.answer \in Tokens)
    => /\ lastCall.ok
       /\ birbank_jwt_token = lastCall.answer
       /\ birbank_token_expiry = lastCall.at + SessionSec
       /\ lastCall.returned = birbank_jwt_token

C11_Witness ==
    /\ lastCall.login
    /\ lastCall.answer = "jwt2"
    /\ lastCall.jwt_before = "jwt1"
    /\ lastCall.at > 0
    /\ birbank_jwt_token = "jwt2"
    /\ birbank_token_expiry = lastCall.at + SessionSec

\* C12: after a get_token call whose login failed or was answered without
\* a token, the call has raised and the cached token and expiry are what
\* they were before the call
C12_FailedLoginKeepsCache ==
    (lastCall.login /\ lastCall.answer \notin Tokens)
    => /\ ~lastCall.ok
       /\ ret.op = "get_token" /\ ret.raised
       /\ birbank_jwt_token = lastCall.jwt_before
       /\ birbank_token_expiry = lastCall.expiry_before

C12_Witness ==
    /\ lastCall.login
    /\ lastCall.answer = "no_token"
    /\ ret.raised
    /\ lastCall.jwt_before \in Tokens
    /\ lastCall.expiry_before # NoExpiry
    /\ birbank_jwt_token = lastCall.jwt_before
    /\ birbank_token_expiry = lastCall.expiry_before

\* C13: after initialize_connection has returned, no two RemoteAccounts of
\* the connection have the same external identifier, also when the accounts
\* response listed an identifier more than once
C13_OneAccountPerIdentifier ==
    (ret.op = "init" /\ ~ret.raised)
    => \A i, k \in 1..Len(accounts) :
          accounts[i].online_identifier = accounts[k].online_identifier
          => i = k

\* C14: after initialize_connection has returned, every account it upserted
\* whose identifier is the bank account number of a bank journal has a
\* journal whose online-account reference points to it (the reference it
\* had before the call, or the one the call set), and resolves to a journal
C14_AutoLinked ==
    (ret.op = "init" /\ ~ret.raised)
    => \A a \in ret.upserted :
          (\E j \in 1..Len(journals) :
              /\ journals[j].type = "bank"
              /\ journals[j].acc_number = accounts[a].online_identifier)
          => /\ \E j \in 1..Len(journals) :
                   journals[j].account_online_account_id = a
             /\ linked_journal_id(a, accounts, journals) # 0

\* C15: a sync targeted at one account whose retrieval was non-empty and
\* for which no journal is resolved ends by raising, has created no
\* statement line, and leaves status error with the error message recorded
C15_TargetedNoJournalBlocks ==
    \A p \in Procs :
        (/\ sync[p].pc = "done"
         /\ sync[p].target # 0
         /\ sync[p].failed = {sync[p].target}
         /\ linked_journal_id(sync[p].target, accounts, journals) = 0)
        => /\ sync[p].result = "raised"
           /\ lines = sync[p].start_lines
           /\ state = "error"
           /\ last_error_message = ErrWrite

C15_Witness ==
    \E p \in Procs :
        /\ sync[p].pc = "done"
        /\ sync[p].target = 2
        /\ sync[p].failed = {2}
        /\ linked_journal_id(2, accounts, journals) = 0
        /\ sync[p].start_error = NoError
        /\ sync[p].result = "raised"
        /\ lines # EmptyBag
        /\ state = "error"

\* C16: a sync without target in which persisting an account failed has
\* still retrieved every account, has a line in the journal of every account
\* whose retrieval and persistence did not fail, and ends with the success
\* notification; a sync with a target in which persisting failed ends by
\* raising, with only the target retrieved
C16_FailureSkipsOrBlocks ==
    \A p \in Procs :
        (sync[p].pc = "done" /\ sync[p].failed # {})
        => IF sync[p].target = 0
           THEN /\ sync[p].result = "success"
                /\ sync[p].retrieved = 1..Len(accounts)
                /\ \A a \in sync[p].retrieved
                             \ (sync[p].failed \cup sync[p].fetch_failed) :
                      \E l \in BagToSet(lines) :
                         l.journal_id = linked_journal_id(a, accounts, journals)
           ELSE /\ sync[p].result = "raised"
                /\ sync[p].retrieved = {sync[p].target}

C16_Witness ==
    \E p \in Procs :
        /\ sync[p].pc = "done"
        /\ sync[p].target = 0
        /\ sync[p].failed = {2}
        /\ sync[p].fetch_failed = {}
        /\ sync[p].retrieved = {1, 2, 3}
        /\ sync[p].start_lines = EmptyBag
        /\ sync[p].total_new_lines = 2
        /\ sync[p].result = "success"

\* C17: the count a completed sync reports is the number of statement lines
\* created since the sync started: transactions already persisted in the
\* journal and accounts whose persistence failed add nothing to it
C17_CountIsCreated ==
    \A p \in Procs :
        (sync[p].pc = "done" /\ sync[p].result = "success")
        => /\ sync[p].start_lines \sqsubseteq lines
           /\ sync[p].total_new_lines =
                 BagCardinality(lines) - BagCardinality(sync[p].start_lines)

\* 2 incoming, 1 already persisted: 1 created and count 1
C17_Witness ==
    \E p \in Procs :
        /\ sync[p].pc = "done"
        /\ sync[p].result = "success"
        /\ sync[p].target # 0
        /\ lastIngest.batch = <<Tx("r1"), Tx("r2")>>
        /\ sync[p].start_lines =
              SetToBag({[journal_id |-> lastIngest.journal,
                         online_transaction_identifier |-> "r1"]})
        /\ BagCardinality(lines) = 2
        /\ sync[p].total_new_lines = 1

\* C18: an account whose retrieval failed (login, transport, HTTP or
\* parsing) is passed over with nothing to persist and is never among the
\* accounts whose processing failed; a sync without target still retrieves
\* every account, and a sync in which only retrievals failed ends with the
\* success notification
C18_RetrievalFailureSkipped ==
    \A p \in Procs :
        /\ sync[p].fetch_failed \cap sync[p].failed = {}
        /\ sync[p].pc \in {"persist", "create", "count"}
           => Head(sync[p].queue) \notin sync[p].fetch_failed
        /\ (sync[p].pc = "done" /\ sync[p].target = 0)
           => sync[p].retrieved = 1..Len(accounts)
        /\ (sync[p].pc = "done" /\ sync[p].fetch_failed # {}
                                /\ sync[p].failed = {})
           => sync[p].result = "success"

C18_Witness ==
    \E p \in Procs :
        /\ sync[p].pc = "done"
        /\ sync[p].target = 0
        /\ sync[p].fetch_failed = {2}
        /\ ~sync[p].auth_failed
        /\ sync[p].failed = {}
        /\ sync[p].retrieved = {1, 2, 3}
        /\ sync[p].total_new_lines = 2
        /\ sync[p].result = "success"

\* C19: a step in which reset_connection is called (ret becomes "reset"
\* with the clock standing still) makes the status disconnected, from any
\* status, and changes no other field of the connection, no RemoteAccount,
\* no journal and no statement line
C19_ResetOnlyStatus ==
    [][(ret'.op = "reset" /\ ticks' = ticks)
       => /\ state' = "disconnected"
          /\ UNCHANGED <<last_success_date, last_error_message,
                         birbank_jwt_token, birbank_token_expiry,
                         accounts, journals, lines>>]_vars

C19_Witness ==
    /\ ret.op = "reset"
    /\ state = "disconnected"
    /\ last_error_message # NoError
    /\ last_success_date # NoDate
    /\ birbank_jwt_token # NoToken
    /\ birbank_token_expiry # NoExpiry
    /\ accounts # <<>>
    /\ lines # EmptyBag

\* C20: a step in which create_journal_for_account is called on an account
\* that resolves to a journal changes no journal; on an account that
\* resolves to none it either raises and changes no journal, or appends
\* exactly one bank journal that points at the account and to which the
\* account then resolves; a call right after a call on the same account
\* that returned creates nothing, so calls in a row create at most one
C20_CreateJournalOnce ==
    [][ret'.op = "create_journal"
       => /\ IF linked_journal_id(ret'.account, accounts, journals) # 0
             THEN ~ret'.raised /\ journals' = journals
             ELSE IF ret'.raised
             THEN journals' = journals
             ELSE /\ Len(journals') = Len(journals) + 1
                  /\ SubSeq(journals', 1, Len(journals)) = journals
                  /\ journals'[Len(journals')].type = "bank"
                  /\ journals'[Len(journals')].account_online_account_id
                        = ret'.account
                  /\ linked_journal_id(ret'.account, accounts', journals')
                        = Len(journals')
          /\ (/\ ret.op = "create_journal"
              /\ ~ret.raised
              /\ ret.account = ret'.account)
             => journals' = journals
          /\ UNCHANGED <<accounts, lines>>]_vars

C20_Witness ==
    /\ ret.op = "create_journal"
    /\ ~ret.raised
    /\ ret.account = 2
    /\ Len(journals) = Len(InitJournals) + 1
    /\ journals[Len(journals)] = NewJournal(2, accounts)
    /\ linked_journal_id(2, accounts, journals) = Len(journals)

\* C22: while a sync is processing its accounts the status is connected;
\* and a targeted sync on a connection with two or more accounts that was
\* started from status error and has completed without error leaves status
\* connected, the last-error message still the (non-empty) one it found and
\* the last-success timestamp the one it found
C22_ConnectedKeepsOldError ==
    \A p \in SeqProcs :
        /\ sync[p].pc \in {"loop", "persist", "create", "count"}
           => state = "connected"
        /\ (/\ sync[p].pc = "done"
            /\ sync[p].result = "success"
            /\ sync[p].target # 0
            /\ Len(accounts) >= 2
            /\ sync[p].start_state = "error")
           => /\ state = "connected"
              /\ last_error_message # NoError
              /\ last_error_message = sync[p].start_error
              /\ last_success_date = sync[p].start_success

C22_Witness ==
    \E p \in SeqProcs :
        /\ sync[p].pc = "done"
        /\ sync[p].result = "success"
        /\ sync[p].target = 3
        /\ sync[p].total_new_lines = 1
        /\ Len(accounts) = 3
        /\ sync[p].start_state = "error"
        /\ sync[p].finished_at > sync[p].start_success
        /\ state = "connected"
        /\ last_error_message = ErrWrite
        /\ last_success_date = sync[p].start_success

\* C21: when two sync calls hold the same transaction identifier for the
\* same journal, each has run its duplicate search without finding it, and
\* each has run its create, the journal holds two lines with that identifier
C21_BothCreate ==
    \A p, q \in Procs :
        (/\ p # q
         /\ sync[p].pc = "count" /\ sync[q].pc = "count"
         /\ sync[p].journal = sync[q].journal)
        => \A r \in TxIds :
              (/\ \E i \in 1..Len(sync[p].transactions) :
                     sync[p].transactions[i] = Tx(r)
               /\ \E i \in 1..Len(sync[q].transactions) :
                     sync[q].transactions[i] = Tx(r)
               /\ r \notin sync[p].existing_ids \cup sync[q].existing_ids)
              => CopiesIn([journal_id |-> sync[p].journal,
                           online_transaction_identifier |-> r], lines) >= 2

C21_Witness ==
    /\ sync[1].pc = "count" /\ sync[2].pc = "count"
    /\ sync[1].journal = 1 /\ sync[2].journal = 1
    /\ sync[1].transactions = <<Tx("r1")>>
    /\ sync[2].transactions = <<Tx("r1")>>
    /\ sync[1].existing_ids = {} /\ sync[2].existing_ids = {}
    /\ CopiesIn([journal_id |-> 1, online_transaction_identifier |-> "r1"],
                lines) = 2
====
